---------------------------- MODULE Spec2Model ----------------------------
(***************************************************************************)
(* Message-board backend (src/server.js): session-authenticated,           *)
(* ownership-enforced CRUD over two sqlite tables (users, messages) and    *)
(* the express-session store.                                              *)
(*                                                                         *)
(* Every handler is asynchronous: its synchronous prefix runs when the     *)
(* request arrives, each db.get / db.run / db.all statement reaches the    *)
(* database atomically at some later point, and its callback runs later    *)
(* still.  Each of these is one action; statements of concurrent requests  *)
(* interleave freely.                                                      *)
(***************************************************************************)
EXTENDS Integers, Sequences, FiniteSets, TLC

\* ------------------------------------------------------------------ bounds
\* messages inserted in one run (caps CURRENT_TIMESTAMP and AUTOINCREMENT)
MaxMsgs == 2
\* messages inserted in one run while two requests are in flight
MaxBoardMsgs == 1
\* messages inserted in one run of the feed specification
MaxFeedMsgs == 3
\* rows of the users table (reached only if UNIQUE were not enforced)
MaxUsers == 3
\* days the clock specification runs for
MaxTime == 9

\* cookie.maxAge, in days
MaxAge == 7

\* ------------------------------------------------------------- input sets
Reqs == {"r1", "r2"}
Tokens == {"t1", "t2"}
NoCookie == "nocookie"
Cookies == Tokens \cup {NoCookie}
NoSid == "nosid"
\* "" stands for an absent or empty field (both are falsy in the handlers)
Usernames == {"alice", "bob"}
Passwords == {"pw1", "pw2"}
SignupPasswords == {"pw1"}
\* a JSON body may carry a number where a string is expected; "<123>"
\* stands for the number 123
NonStrings == {"<123>"}
Salts == {"s1"}
\* message bodies are sequences of characters; <<>> is absent/empty
Bodies == {<<>>, <<" ">>, <<"a">>}
\* SQL NULL / JS undefined for an integer column or field
Null == 0
\* message ids a client may send; Null is an absent id
Ids == 0..MaxMsgs

VARIABLES
    variant,    \* which of the two authenticated server.js variants runs
    users,      \* users table: sequence of rows, row i has id i
    messages,   \* messages table: set of rows
    msgSeq,     \* sqlite_sequence entry of messages (AUTOINCREMENT)
    clock,      \* CURRENT_TIMESTAMP, advanced by every insert
    sessions,   \* express-session MemoryStore: token -> identity
    expires,    \* cookie.expires of each stored session, in days; 0 if none
    dateNow,    \* Date.now(), in days
    req         \* the in-flight requests, one record per connection slot

vars == <<variant, users, messages, msgSeq, clock, sessions, expires, dateNow, req>>

\* ---------------------------------------------------------------- values
NoIdentity == [userId |-> Null, username |-> ""]
NoHash == [salt |-> "", digest |-> <<>>]
NoRow == [found |-> FALSE, id |-> Null, password_hash |-> NoHash, user_id |-> Null]
NoResp == [status |-> 0, error |-> ""]

Resp(status, error) == [status |-> status, error |-> error]
Success == Resp(200, "")

Blank ==
    [pc |-> "idle", op |-> "none", sid |-> NoSid, userId |-> Null,
     passed |-> FALSE,
     username |-> "", password |-> "", hash |-> NoHash,
     id |-> Null, message |-> <<>>, name |-> "",
     err |-> "none", row |-> NoRow, lastID |-> Null, changes |-> 0,
     rows |-> <<>>, me |-> NoIdentity, resp |-> NoResp]

\* A finished request: what the client was sent (resp, and the payload
\* fields lastID, rows, me), whether requireLogin let it through, and the
\* outcome its last statement reported (err, this.changes, row found);
\* the handler's other locals are out of scope.
Done(r, resp) ==
    [Blank EXCEPT !.pc = "done", !.op = r.op, !.resp = resp,
                  !.passed = r.passed, !.err = r.err, !.changes = r.changes,
                  !.row = [NoRow EXCEPT !.found = r.row.found],
                  !.lastID = r.lastID, !.rows = r.rows, !.me = r.me]

Free(r) == req[r].pc \in {"idle", "done"}

\* the node process: an exception thrown inside a callback is caught by
\* nobody and ends it
Running == \A q \in Reqs : req[q].pc # "uncaught"

\* ------------------------------------------------------- Credential Store
\* bcrypt.hashSync(password, salt): the salt is embedded in the output
HashSync(password, salt) == [salt |-> salt, digest |-> <<salt, password>>]

\* bcryptjs throws "Illegal arguments" from hashSync and compareSync unless
\* typeof password is "string"
BcryptThrows(password) == password \in NonStrings

\* bcrypt.compareSync(password, hash): re-hash under the embedded salt
CompareSync(password, hash) == HashSync(password, hash.salt) = hash

\* ---------------------------------------------------------- session layer
\* express-session on request arrival: an unknown or expired cookie yields a
\* fresh, empty session; a stored one yields a copy of the stored identity
SessionValid(c) == c \in Tokens /\ sessions[c] # NoIdentity

LoadIdentity(c) == IF SessionValid(c) THEN sessions[c] ELSE NoIdentity

\* ids a freshly generated session may take: unguessable, so never one
\* that is stored or that another request in flight holds
FreshSids(r) ==
    {t \in Tokens : sessions[t] = NoIdentity
                    /\ \A q \in Reqs \ {r} : Free(q) \/ req[q].sid # t}

\* req.sessionID of a request presenting cookie c
SessionIds(r, c) == IF SessionValid(c) THEN {c} ELSE FreshSids(r)

\* the stored session a request's cookie names, if any
CookieSid(c) == IF SessionValid(c) THEN c ELSE NoSid

\* the expires times in the store once a step is over: a destroyed or
\* expired session has none, and the session of a request that has just been
\* answered was saved (if modified) or touched (if stored) with its cookie's
\* maxAge reset, counting from now
Stored(sid, ended) ==
    [t \in Tokens |-> IF sessions'[t] = NoIdentity THEN 0
                      ELSE IF ended /\ t = sid THEN dateNow + MaxAge
                      ELSE expires[t]]

\* the res.end wrapper of express-session, run when request r is answered
ResEnd(r, sid) ==
    /\ dateNow' = dateNow
    /\ expires' = Stored(sid, req'[r].pc = "done")

\* requireLogin letting every request through
RequireLoginAlways(ident) == TRUE

\* the guard of requireLogin(req, res, next)
RequireLogin(ident) == ident.userId # Null

Unauthorized == Resp(401, "Unauthorized. Please log in.")

\* ------------------------------------------------------------ users table
UserRows(us, username) == {i \in 1..Len(us) : us[i].username = username}

\* SELECT id, password_hash FROM users WHERE username = ?
SelectUser(us, username) ==
    IF UserRows(us, username) = {} THEN NoRow
    ELSE LET i == CHOOSE i \in UserRows(us, username) : TRUE
         IN [found |-> TRUE, id |-> i, password_hash |-> us[i].password_hash,
             user_id |-> Null]

\* the INSERT as it would run were username not declared UNIQUE
InsertUserNoUnique(us, username, hash) ==
    [err |-> "none",
     users |-> Append(us, [username |-> username, password_hash |-> hash]),
     lastID |-> Len(us) + 1]

\* INSERT INTO users (username, password_hash): username TEXT UNIQUE
InsertUser(us, username, hash) ==
    IF UserRows(us, username) # {}
    THEN [err |-> "constraint", users |-> us, lastID |-> Null]
    ELSE [err |-> "none",
          users |-> Append(us, [username |-> username, password_hash |-> hash]),
          lastID |-> Len(us) + 1]

\* --------------------------------------------------------- messages table
MsgRows(msgs, id) == {m \in msgs : m.id = id}

MaxId(msgs) == IF msgs = {} THEN 0 ELSE CHOOSE n \in {m.id : m \in msgs} :
                                          \A m \in msgs : m.id <= n

\* id INTEGER PRIMARY KEY AUTOINCREMENT: one more than the largest id the
\* table has ever held
NextRowid(msgs, seq) == (IF MaxId(msgs) > seq THEN MaxId(msgs) ELSE seq) + 1

\* INSERT INTO messages (name, message, user_id) VALUES (?, ?, ?)
InsertMessage(msgs, seq, now, name, message, userId) ==
    LET id == NextRowid(msgs, seq)
    IN [messages |-> msgs \cup {[id |-> id, name |-> name, message |-> message,
                                 user_id |-> userId, timestamp |-> now]},
        lastID |-> id]

\* SELECT user_id FROM messages WHERE id = ?
SelectOwner(msgs, id) ==
    IF MsgRows(msgs, id) = {} THEN NoRow
    ELSE [NoRow EXCEPT !.found = TRUE,
                       !.user_id = (CHOOSE m \in MsgRows(msgs, id) : TRUE).user_id]

\* UPDATE messages SET message = ? WHERE id = ?
UpdateMessage(msgs, id, message) ==
    [messages |-> {IF m.id = id THEN [m EXCEPT !.message = message] ELSE m : m \in msgs},
     changes |-> Cardinality(MsgRows(msgs, id))]

\* DELETE FROM messages WHERE id = ?
DeleteMessage(msgs, id) ==
    [messages |-> msgs \ MsgRows(msgs, id),
     changes |-> Cardinality(MsgRows(msgs, id))]

RECURSIVE OrderByIdAsc(_)
\* SELECT * FROM messages in rowid order, as without the ORDER BY clause
OrderByIdAsc(msgs) ==
    IF msgs = {} THEN <<>>
    ELSE LET low == CHOOSE m \in msgs : \A n \in msgs : m.id <= n.id
         IN <<low>> \o OrderByIdAsc(msgs \ {low})

RECURSIVE OrderByIdDesc(_)
\* SELECT * FROM messages ORDER BY id DESC
OrderByIdDesc(msgs) ==
    IF msgs = {} THEN <<>>
    ELSE LET top == CHOOSE m \in msgs : \A n \in msgs : n.id <= m.id
         IN <<top>> \o OrderByIdDesc(msgs \ {top})

RECURSIVE Trim(_)
\* String.prototype.trim: drop leading and trailing whitespace
Trim(s) ==
    IF s = <<>> THEN <<>>
    ELSE IF Head(s) = " " THEN Trim(Tail(s))
    ELSE IF s[Len(s)] = " " THEN Trim(SubSeq(s, 1, Len(s) - 1))
    ELSE s

\* the ownership check with its comparison inverted (=== for !==)
RequireOwnershipInverted(v, op, err, row, userId) ==
    IF v = 1 /\ err # "none" THEN Resp(500, "DB error.")
    ELSE IF ~row.found THEN Resp(404, "Message not found.")
    ELSE IF v = 1 /\ row.user_id = Null
         THEN Resp(403, IF op = "update" THEN "Cannot modify legacy message."
                                         ELSE "Cannot delete legacy message.")
    ELSE IF row.user_id = userId THEN Resp(403, "Not allowed.")
    ELSE NoResp

\* the ownership check without the comparison of owner and session user
RequireOwnershipAnyUser(v, op, err, row, userId) ==
    IF v = 1 /\ err # "none" THEN Resp(500, "DB error.")
    ELSE IF ~row.found THEN Resp(404, "Message not found.")
    ELSE IF row.user_id = Null
         THEN Resp(403, IF op = "update" THEN "Cannot modify legacy message."
                                         ELSE "Cannot delete legacy message.")
    ELSE NoResp

\* the ownership check taking a row without owner to be anybody's
RequireOwnershipLegacyOpen(v, op, err, row, userId) ==
    IF v = 1 /\ err # "none" THEN Resp(500, "DB error.")
    ELSE IF ~row.found THEN Resp(404, "Message not found.")
    ELSE IF row.user_id # Null /\ row.user_id # userId
         THEN Resp(403, "Not allowed.")
    ELSE NoResp

\* the ownership check in the db.get callback of /update and /delete;
\* NoResp lets the request through to its UPDATE / DELETE
RequireOwnership(v, op, err, row, userId) ==
    IF v = 1 /\ err # "none" THEN Resp(500, "DB error.")
    ELSE IF ~row.found THEN Resp(404, "Message not found.")
    ELSE IF v = 1 /\ row.user_id = Null
         THEN Resp(403, IF op = "update" THEN "Cannot modify legacy message."
                                         ELSE "Cannot delete legacy message.")
    ELSE IF row.user_id # userId THEN Resp(403, "Not allowed.")
    ELSE NoResp

\* the credential check answering an unknown username in its own words
LoginCheckNamesUser(err, row, password) ==
    IF err # "none" THEN Resp(500, "DB error.")
    ELSE IF ~row.found THEN Resp(400, "No such user.")
    ELSE IF ~CompareSync(password, row.password_hash)
         THEN Resp(400, "Invalid credentials.")
    ELSE Success

\* the credential check in the db.get callback of /login
LoginCheck(err, row, password) ==
    IF err # "none" THEN Resp(500, "DB error.")
    ELSE IF ~row.found THEN Resp(400, "Invalid credentials.")
    ELSE IF ~CompareSync(password, row.password_hash)
         THEN Resp(400, "Invalid credentials.")
    ELSE Success

\* ------------------------------------------------------------------ Init
\* a fresh deployment: both tables empty, no session stored
InitAuth ==
    /\ variant = 1
    /\ users = <<>>
    /\ messages = {} /\ msgSeq = 0 /\ clock = 0
    /\ sessions = [t \in Tokens |-> NoIdentity]
    /\ expires = [t \in Tokens |-> 0] /\ dateNow = 0
    /\ req = [r \in Reqs |-> Blank]

\* the row a database carried over from the table without user_id holds
LegacyRow == [id |-> 1, name |-> "carol", message |-> <<"a">>,
              user_id |-> Null, timestamp |-> 1]

\* a running board: alice and bob have signed up (ids 1 and 2) and hold the
\* sessions t1 and t2, issued just now; the messages table is empty or holds
\* one legacy row
InitBoard ==
    /\ users = <<[username |-> "alice", password_hash |-> HashSync("pw1", "s1")],
                 [username |-> "bob", password_hash |-> HashSync("pw1", "s1")]>>
    /\ \/ messages = {} /\ msgSeq = 0 /\ clock = 0
       \/ messages = {LegacyRow} /\ msgSeq = 1 /\ clock = 1
    /\ sessions = [t \in Tokens |-> IF t = "t1"
                                    THEN [userId |-> 1, username |-> "alice"]
                                    ELSE [userId |-> 2, username |-> "bob"]]
    /\ expires = [t \in Tokens |-> MaxAge] /\ dateNow = 0
    /\ req = [r \in Reqs |-> Blank]

Init == variant \in {1, 2} /\ (InitAuth \/ InitBoard)

\* --------------------------------------------------------------- /signup
SignupStart(r, c, username, password) ==
    /\ Running
    /\ Free(r)
    /\ \E sid \in SessionIds(r, c) :
         req' = [req EXCEPT ![r] =
             IF username = "" \/ password = ""
             THEN Done([Blank EXCEPT !.op = "signup"],
                       Resp(400, "Username and password required."))
             ELSE [Blank EXCEPT !.pc = "get", !.op = "signup", !.sid = sid,
                                !.username = username, !.password = password]]
    /\ UNCHANGED <<variant, users, messages, msgSeq, clock, sessions>>
    /\ ResEnd(r, CookieSid(c))

\* db.get(`SELECT id FROM users WHERE username = ?`) and its callback, which
\* answers or hashes the password (outside the handler's try block, which
\* has long been left) and issues the INSERT
SignupGet(r) ==
    /\ Running
    /\ req[r].pc = "get" /\ req[r].op = "signup"
    /\ \E fail \in BOOLEAN, salt \in Salts :
         LET got == IF fail THEN [req[r] EXCEPT !.err = "io"]
                    ELSE [req[r] EXCEPT !.row = SelectUser(users, req[r].username)]
         IN req' = [req EXCEPT ![r] =
                IF got.err # "none" THEN Done(got, Resp(500, "DB error."))
                ELSE IF got.row.found
                     THEN Done(got, Resp(400, "Username already taken."))
                ELSE IF BcryptThrows(req[r].password)
                     THEN [got EXCEPT !.pc = "uncaught"]
                ELSE [got EXCEPT !.pc = "run", !.password = "",
                                 !.hash = HashSync(req[r].password, salt)]]
    /\ UNCHANGED <<variant, users, messages, msgSeq, clock, sessions>>
    /\ ResEnd(r, req[r].sid)

\* db.run(`INSERT INTO users ...`) reaches the database
SignupRun(r) ==
    /\ Running
    /\ req[r].pc = "run" /\ req[r].op = "signup"
    /\ Len(users) < MaxUsers
    /\ \E fail \in BOOLEAN :
         LET ins == InsertUser(users, req[r].username, req[r].hash)
         IN IF fail
            THEN /\ req' = [req EXCEPT ![r] =
                        [@ EXCEPT !.pc = "runcb", !.hash = NoHash, !.err = "io"]]
                 /\ users' = users
            ELSE /\ req' = [req EXCEPT ![r] =
                        [@ EXCEPT !.pc = "runcb", !.hash = NoHash,
                                  !.err = ins.err, !.lastID = ins.lastID]]
                 /\ users' = ins.users
    /\ UNCHANGED <<variant, messages, msgSeq, clock, sessions>>
    /\ ResEnd(r, req[r].sid)

\* the INSERT's callback binding the session before it looks at err2
SignupRunCbBindsFirst(r) ==
    /\ Running
    /\ req[r].pc = "runcb" /\ req[r].op = "signup"
    /\ sessions' = [sessions EXCEPT ![req[r].sid] =
           [userId |-> req[r].lastID, username |-> req[r].username]]
    /\ req' = [req EXCEPT ![r] =
           Done(@, IF req[r].err # "none" THEN Resp(500, "Error creating user.")
                   ELSE Success)]
    /\ UNCHANGED <<variant, users, messages, msgSeq, clock>>
    /\ ResEnd(r, req[r].sid)

\* the INSERT's callback: auto-login; the modified session is saved under
\* the request's session id as the response ends
SignupRunCb(r) ==
    /\ Running
    /\ req[r].pc = "runcb" /\ req[r].op = "signup"
    /\ IF req[r].err # "none"
       THEN /\ req' = [req EXCEPT ![r] = Done(@, Resp(500, "Error creating user."))]
            /\ sessions' = sessions
       ELSE /\ sessions' = [sessions EXCEPT ![req[r].sid] =
                   [userId |-> req[r].lastID, username |-> req[r].username]]
            /\ req' = [req EXCEPT ![r] = Done(@, Success)]
    /\ UNCHANGED <<variant, users, messages, msgSeq, clock>>
    /\ ResEnd(r, req[r].sid)

\* ---------------------------------------------------------------- /login
LoginStart(r, c, username, password) ==
    /\ Running
    /\ Free(r)
    /\ \E sid \in SessionIds(r, c) :
         req' = [req EXCEPT ![r] =
             IF username = "" \/ password = ""
             THEN Done([Blank EXCEPT !.op = "login"],
                       Resp(400, "Username and password required."))
             ELSE [Blank EXCEPT !.pc = "get", !.op = "login", !.sid = sid,
                                !.username = username, !.password = password]]
    /\ UNCHANGED <<variant, users, messages, msgSeq, clock, sessions>>
    /\ ResEnd(r, CookieSid(c))

\* db.get(`SELECT id, password_hash FROM users WHERE username = ?`)
LoginGet(r) ==
    /\ Running
    /\ req[r].pc = "get" /\ req[r].op = "login"
    /\ \E fail \in BOOLEAN :
         req' = [req EXCEPT ![r] =
             IF fail THEN [@ EXCEPT !.pc = "getcb", !.err = "io"]
             ELSE [@ EXCEPT !.pc = "getcb",
                            !.row = SelectUser(users, req[r].username)]]
    /\ UNCHANGED <<variant, users, messages, msgSeq, clock, sessions>>
    /\ ResEnd(r, req[r].sid)

\* a login that sets the user id and leaves the cached username of a session
\* that already has one
LoginGetCbKeepsName(r) ==
    /\ Running
    /\ req[r].pc = "getcb" /\ req[r].op = "login"
    /\ LET resp == LoginCheck(req[r].err, req[r].row, req[r].password)
           throws == /\ req[r].err = "none" /\ req[r].row.found
                     /\ BcryptThrows(req[r].password)
       IN /\ req' = [req EXCEPT ![r] =
                 IF throws THEN [@ EXCEPT !.pc = "uncaught"] ELSE Done(@, resp)]
          /\ sessions' = IF ~throws /\ resp = Success
                         THEN [sessions EXCEPT ![req[r].sid] =
                                  [userId |-> req[r].row.id,
                                   username |->
                                     IF sessions[req[r].sid] # NoIdentity
                                     THEN sessions[req[r].sid].username
                                     ELSE req[r].username]]
                         ELSE sessions
    /\ UNCHANGED <<variant, users, messages, msgSeq, clock>>
    /\ ResEnd(r, req[r].sid)

\* its callback: on a match the identity is written into the session, which
\* is saved under the request's session id as the response ends; compareSync
\* runs only when a row was found
LoginGetCb(r) ==
    /\ Running
    /\ req[r].pc = "getcb" /\ req[r].op = "login"
    /\ LET resp == LoginCheck(req[r].err, req[r].row, req[r].password)
           throws == /\ req[r].err = "none" /\ req[r].row.found
                     /\ BcryptThrows(req[r].password)
       IN /\ req' = [req EXCEPT ![r] =
                 IF throws THEN [@ EXCEPT !.pc = "uncaught"] ELSE Done(@, resp)]
          /\ sessions' = IF ~throws /\ resp = Success
                         THEN [sessions EXCEPT ![req[r].sid] =
                                  [userId |-> req[r].row.id,
                                   username |-> req[r].username]]
                         ELSE sessions
    /\ UNCHANGED <<variant, users, messages, msgSeq, clock>>
    /\ ResEnd(r, req[r].sid)

\* --------------------------------------------------------------- /logout
\* a logout that only clears the cookie and leaves the store entry
LogoutStartCookieOnly(r, c) ==
    /\ Running
    /\ Free(r)
    /\ req' = [req EXCEPT ![r] =
           [Blank EXCEPT !.pc = "destroycb", !.op = "logout",
                         !.sid = IF SessionValid(c) THEN c ELSE NoSid]]
    /\ UNCHANGED <<variant, users, messages, msgSeq, clock, sessions>>
    /\ ResEnd(r, NoSid)

\* req.session.destroy(): the store entry is deleted at once, the callback
\* that answers runs later
LogoutStart(r, c) ==
    /\ Running
    /\ Free(r)
    /\ req' = [req EXCEPT ![r] =
           [Blank EXCEPT !.pc = "destroycb", !.op = "logout",
                         !.sid = IF SessionValid(c) THEN c ELSE NoSid]]
    /\ sessions' = IF SessionValid(c) THEN [sessions EXCEPT ![c] = NoIdentity]
                   ELSE sessions
    /\ UNCHANGED <<variant, users, messages, msgSeq, clock>>
    /\ ResEnd(r, NoSid)

\* a destroy that reports an error when no session was stored
LogoutCbErrOnMissing(r) ==
    /\ Running
    /\ req[r].pc = "destroycb" /\ req[r].op = "logout"
    /\ req' = [req EXCEPT ![r] =
           Done(@, IF req[r].sid = NoSid THEN Resp(500, "Logout error.")
                   ELSE Success)]
    /\ UNCHANGED <<variant, users, messages, msgSeq, clock, sessions>>
    /\ ResEnd(r, NoSid)

\* the MemoryStore never reports an error to the destroy callback
LogoutCb(r) ==
    /\ Running
    /\ req[r].pc = "destroycb" /\ req[r].op = "logout"
    /\ req' = [req EXCEPT ![r] = Done(@, Success)]
    /\ UNCHANGED <<variant, users, messages, msgSeq, clock, sessions>>
    /\ ResEnd(r, NoSid)

\* ------------------------------------------------------------------- /me
Me(r, c) ==
    /\ Running
    /\ Free(r)
    /\ req' = [req EXCEPT ![r] =
           Done([Blank EXCEPT !.op = "me",
                              !.me = IF LoadIdentity(c).userId # Null
                                     THEN LoadIdentity(c) ELSE NoIdentity],
                Success)]
    /\ UNCHANGED <<variant, users, messages, msgSeq, clock, sessions>>
    /\ ResEnd(r, CookieSid(c))

\* a stored session passes its expires time (cookie maxAge, 7 days): the
\* store no longer returns it
Expire(t) ==
    /\ Running
    /\ sessions[t] # NoIdentity
    /\ sessions' = [sessions EXCEPT ![t] = NoIdentity]
    /\ UNCHANGED <<variant, users, messages, msgSeq, clock, req, dateNow>>
    /\ expires' = Stored(NoSid, FALSE)

\* a day passes; the store no longer returns a session whose expires time
\* has been reached
Tick ==
    /\ Running
    /\ dateNow < MaxTime
    /\ dateNow' = dateNow + 1
    /\ sessions' = [t \in Tokens |->
           IF expires[t] <= dateNow + 1 THEN NoIdentity ELSE sessions[t]]
    /\ expires' = [t \in Tokens |-> IF expires[t] <= dateNow + 1 THEN 0 ELSE expires[t]]
    /\ UNCHANGED <<variant, users, messages, msgSeq, clock, req>>

\* ------------------------------------------------------------- /messages
MessagesStart(r, c) ==
    /\ Running
    /\ Free(r)
    /\ req' = [req EXCEPT ![r] = [Blank EXCEPT !.pc = "all", !.op = "messages",
                                               !.sid = CookieSid(c)]]
    /\ UNCHANGED <<variant, users, messages, msgSeq, clock, sessions>>
    /\ ResEnd(r, NoSid)

\* db.all(`SELECT * FROM messages ORDER BY id DESC`) and its callback
MessagesAll(r) ==
    /\ Running
    /\ req[r].pc = "all" /\ req[r].op = "messages"
    /\ \E fail \in BOOLEAN :
         req' = [req EXCEPT ![r] =
             IF fail THEN Done([@ EXCEPT !.err = "io"],
                               Resp(500, "Error reading messages."))
             ELSE Done([@ EXCEPT !.rows = OrderByIdDesc(messages)], Success)]
    /\ UNCHANGED <<variant, users, messages, msgSeq, clock, sessions>>
    /\ ResEnd(r, req[r].sid)

\* --------------------------------------------------------------- /submit
\* a /submit that takes the author name from the body, where the client
\* has put another user's name
SubmitStartNameFromBody(r, c, message) ==
    /\ Running
    /\ Free(r)
    /\ LET ident == LoadIdentity(c)
           this == [Blank EXCEPT !.op = "submit", !.userId = ident.userId,
                                 !.passed = RequireLogin(ident),
                                 !.sid = CookieSid(c)]
       IN req' = [req EXCEPT ![r] =
              IF ~this.passed THEN Done(this, Unauthorized)
              ELSE IF message = <<>> \/ Trim(message) = <<>>
                   THEN Done(this, Resp(400, "Message required."))
              ELSE [this EXCEPT !.pc = "run", !.message = message,
                        !.name = CHOOSE u \in Usernames : u # ident.username]]
    /\ UNCHANGED <<variant, users, messages, msgSeq, clock, sessions>>
    /\ ResEnd(r, CookieSid(c))

\* the handler up to db.run; name and userId are read from the session
SubmitStart(r, c, message) ==
    /\ Running
    /\ Free(r)
    /\ LET ident == LoadIdentity(c)
           this == [Blank EXCEPT !.op = "submit", !.userId = ident.userId,
                                 !.passed = RequireLogin(ident),
                                 !.sid = CookieSid(c)]
       IN req' = [req EXCEPT ![r] =
              IF ~this.passed THEN Done(this, Unauthorized)
              ELSE IF message = <<>> \/ Trim(message) = <<>>
                   THEN Done(this, Resp(400, "Message required."))
              ELSE [this EXCEPT !.pc = "run", !.message = message,
                        !.name = IF variant = 1 /\ ident.username = ""
                                 THEN "Anonymous" ELSE ident.username]]
    /\ UNCHANGED <<variant, users, messages, msgSeq, clock, sessions>>
    /\ ResEnd(r, CookieSid(c))

\* db.run(`INSERT INTO messages ...`) and its callback
SubmitRun(r, cap) ==
    /\ Running
    /\ req[r].pc = "run" /\ req[r].op = "submit"
    /\ clock < cap
    /\ \E fail \in BOOLEAN :
         LET ins == InsertMessage(messages, msgSeq, clock + 1, req[r].name,
                                  req[r].message, req[r].userId)
         IN IF fail
            THEN /\ req' = [req EXCEPT ![r] =
                        Done([@ EXCEPT !.err = "io"], Resp(500, "Error saving message."))]
                 /\ UNCHANGED <<messages, msgSeq, clock>>
            ELSE /\ req' = [req EXCEPT ![r] =
                        Done([@ EXCEPT !.lastID = ins.lastID], Success)]
                 /\ messages' = ins.messages
                 /\ msgSeq' = ins.lastID
                 /\ clock' = clock + 1
    /\ UNCHANGED <<variant, users, sessions>>
    /\ ResEnd(r, req[r].sid)

\* --------------------------------------------------------------- /update
UpdateStart(r, c, id, message) ==
    /\ Running
    /\ Free(r)
    /\ LET ident == LoadIdentity(c)
           this == [Blank EXCEPT !.op = "update", !.userId = ident.userId,
                                 !.passed = RequireLogin(ident),
                                 !.sid = CookieSid(c)]
       IN req' = [req EXCEPT ![r] =
              IF ~this.passed THEN Done(this, Unauthorized)
              ELSE IF variant = 1 /\ (id = Null \/ message = <<>>)
                   THEN Done(this, Resp(400, "id and message required."))
              ELSE [this EXCEPT !.pc = "get", !.id = id, !.message = message]]
    /\ UNCHANGED <<variant, users, messages, msgSeq, clock, sessions>>
    /\ ResEnd(r, CookieSid(c))

\* db.get(`SELECT user_id FROM messages WHERE id = ?`) and its callback,
\* which answers or issues the UPDATE
UpdateGet(r) ==
    /\ Running
    /\ req[r].pc = "get" /\ req[r].op = "update"
    /\ \E fail \in BOOLEAN :
         LET got == IF fail THEN [req[r] EXCEPT !.err = "io"]
                    ELSE [req[r] EXCEPT !.row = SelectOwner(messages, req[r].id)]
             resp == RequireOwnership(variant, "update", got.err, got.row, got.userId)
         IN req' = [req EXCEPT ![r] =
                IF resp # NoResp THEN Done(got, resp)
                ELSE [got EXCEPT !.pc = "run", !.row = NoRow]]
    /\ UNCHANGED <<variant, users, messages, msgSeq, clock, sessions>>
    /\ ResEnd(r, req[r].sid)

\* db.run(`UPDATE messages SET message = ? WHERE id = ?`) and its callback
UpdateRun(r) ==
    /\ Running
    /\ req[r].pc = "run" /\ req[r].op = "update"
    /\ \E fail \in BOOLEAN :
         LET upd == UpdateMessage(messages, req[r].id, req[r].message)
         IN IF fail
            THEN /\ req' = [req EXCEPT ![r] =
                        Done([@ EXCEPT !.err = "io"], Resp(500, "Error updating message."))]
                 /\ messages' = messages
            ELSE /\ req' = [req EXCEPT ![r] =
                        Done([@ EXCEPT !.changes = upd.changes], Success)]
                 /\ messages' = upd.messages
    /\ UNCHANGED <<variant, users, msgSeq, clock, sessions>>
    /\ ResEnd(r, req[r].sid)

\* --------------------------------------------------------------- /delete
DeleteStart(r, c, id) ==
    /\ Running
    /\ Free(r)
    /\ LET ident == LoadIdentity(c)
           this == [Blank EXCEPT !.op = "delete", !.userId = ident.userId,
                                 !.passed = RequireLogin(ident),
                                 !.sid = CookieSid(c)]
       IN req' = [req EXCEPT ![r] =
              IF ~this.passed THEN Done(this, Unauthorized)
              ELSE IF variant = 1 /\ id = Null
                   THEN Done(this, Resp(400, "id required."))
              ELSE [this EXCEPT !.pc = "get", !.id = id]]
    /\ UNCHANGED <<variant, users, messages, msgSeq, clock, sessions>>
    /\ ResEnd(r, CookieSid(c))

\* a callback that returns without answering when the row is missing
DeleteGetSilentOnMissing(r) ==
    /\ Running
    /\ req[r].pc = "get" /\ req[r].op = "delete"
    /\ \E fail \in BOOLEAN :
         LET got == IF fail THEN [req[r] EXCEPT !.err = "io"]
                    ELSE [req[r] EXCEPT !.row = SelectOwner(messages, req[r].id)]
             resp == RequireOwnership(variant, "delete", got.err, got.row, got.userId)
         IN req' = [req EXCEPT ![r] =
                IF resp.status = 404 THEN [got EXCEPT !.pc = "returned"]
                ELSE IF resp # NoResp THEN Done(got, resp)
                ELSE [got EXCEPT !.pc = "run", !.row = NoRow]]
    /\ UNCHANGED <<variant, users, messages, msgSeq, clock, sessions>>
    /\ ResEnd(r, req[r].sid)

\* db.get(`SELECT user_id FROM messages WHERE id = ?`) and its callback,
\* which answers or issues the DELETE
DeleteGet(r) ==
    /\ Running
    /\ req[r].pc = "get" /\ req[r].op = "delete"
    /\ \E fail \in BOOLEAN :
         LET got == IF fail THEN [req[r] EXCEPT !.err = "io"]
                    ELSE [req[r] EXCEPT !.row = SelectOwner(messages, req[r].id)]
             resp == RequireOwnership(variant, "delete", got.err, got.row, got.userId)
         IN req' = [req EXCEPT ![r] =
                IF resp # NoResp THEN Done(got, resp)
                ELSE [got EXCEPT !.pc = "run", !.row = NoRow]]
    /\ UNCHANGED <<variant, users, messages, msgSeq, clock, sessions>>
    /\ ResEnd(r, req[r].sid)

\* db.run(`DELETE FROM messages WHERE id = ?`) and its callback
DeleteRun(r) ==
    /\ Running
    /\ req[r].pc = "run" /\ req[r].op = "delete"
    /\ \E fail \in BOOLEAN :
         LET del == DeleteMessage(messages, req[r].id)
         IN IF fail
            THEN /\ req' = [req EXCEPT ![r] =
                        Done([@ EXCEPT !.err = "io"], Resp(500, "Error deleting message."))]
                 /\ messages' = messages
            ELSE /\ req' = [req EXCEPT ![r] =
                        Done([@ EXCEPT !.changes = del.changes], Success)]
                 /\ messages' = del.messages
    /\ UNCHANGED <<variant, users, msgSeq, clock, sessions>>
    /\ ResEnd(r, req[r].sid)

\* -------------------------------------------------------- specifications
\* account and session handlers and the guard of the gated routes, two
\* requests in flight, fresh deployment
NextAuth ==
    \/ \E r \in Reqs, c \in Cookies, u \in Usernames \cup {""},
          p \in SignupPasswords \cup {""} : SignupStart(r, c, u, p)
    \/ \E r \in Reqs : SignupGet(r)
    \/ \E r \in Reqs : SignupRun(r)
    \/ \E r \in Reqs : SignupRunCb(r)
    \/ \E r \in Reqs, c \in Cookies, u \in Usernames \cup {""},
          p \in Passwords \cup {""} : LoginStart(r, c, u, p)
    \/ \E r \in Reqs : LoginGet(r)
    \/ \E r \in Reqs : LoginGetCb(r)
    \/ \E r \in Reqs, c \in Cookies : LogoutStart(r, c)
    \/ \E r \in Reqs : LogoutCb(r)
    \/ \E r \in Reqs, c \in Cookies : Me(r, c)
    \* the gated routes sent with an empty body: answered on arrival, by
    \* requireLogin or by the handler's validation
    \/ \E r \in Reqs, c \in Cookies : SubmitStart(r, c, <<>>)
    \/ \E r \in Reqs, c \in Cookies : UpdateStart(r, c, Null, <<>>)
    \/ \E r \in Reqs, c \in Cookies : DeleteStart(r, c, Null)
    \/ \E t \in Tokens : Expire(t)

SpecAuth == InitAuth /\ [][NextAuth]_vars

\* message handlers under concurrency: two requests in flight on a running
\* board whose two sessions (one per user) may expire
NextBoard ==
    \/ \E r \in Reqs, c \in Tokens, m \in {<<"a">>} : SubmitStart(r, c, m)
    \/ \E r \in Reqs : SubmitRun(r, MaxBoardMsgs)
    \/ \E r \in Reqs, c \in Tokens, i \in 1..MaxBoardMsgs, m \in {<<"b">>} :
         UpdateStart(r, c, i, m)
    \/ \E r \in Reqs : UpdateGet(r)
    \/ \E r \in Reqs : UpdateRun(r)
    \/ \E r \in Reqs, c \in Tokens, i \in 1..MaxBoardMsgs : DeleteStart(r, c, i)
    \/ \E r \in Reqs : DeleteGet(r)
    \/ \E r \in Reqs : DeleteRun(r)
    \/ \E t \in Tokens : Expire(t)

\* variant 1 on a board without legacy rows
InitRace == variant = 1 /\ messages = {} /\ InitBoard

SpecBoard == InitRace /\ [][NextBoard]_vars

\* every message handler with every input, one request at a time, under
\* either variant of the server
NextGate ==
    \/ \E c \in Cookies, m \in Bodies : SubmitStart("r1", c, m)
    \/ SubmitRun("r1", MaxMsgs)
    \/ \E c \in Cookies, i \in Ids, m \in Bodies : UpdateStart("r1", c, i, m)
    \/ UpdateGet("r1")
    \/ UpdateRun("r1")
    \/ \E c \in Cookies, i \in Ids : DeleteStart("r1", c, i)
    \/ DeleteGet("r1")
    \/ DeleteRun("r1")
    \/ \E c \in Cookies : MessagesStart("r1", c)
    \/ MessagesAll("r1")
    \/ \E c \in Cookies : LogoutStart("r1", c)
    \/ LogoutCb("r1")
    \/ \E c \in Cookies : Me("r1", c)
    \/ \E t \in Tokens : Expire(t)

InitGate == variant \in {1, 2} /\ InitBoard

SpecGate == InitGate /\ [][NextGate]_vars

\* the feed: submits, updates, deletes and listings by the two logged-in
\* users, one request at a time
NextFeed ==
    \/ \E c \in Tokens : SubmitStart("r1", c, <<"a">>)
    \/ SubmitRun("r1", MaxFeedMsgs)
    \/ \E c \in Tokens, i \in 1..MaxFeedMsgs : UpdateStart("r1", c, i, <<"b">>)
    \/ UpdateGet("r1")
    \/ UpdateRun("r1")
    \/ \E c \in Tokens, i \in 1..MaxFeedMsgs : DeleteStart("r1", c, i)
    \/ DeleteGet("r1")
    \/ DeleteRun("r1")
    \/ \E c \in Tokens : MessagesStart("r1", c)
    \/ MessagesAll("r1")

InitFeed == variant = 1 /\ InitBoard

SpecFeed == InitFeed /\ [][NextFeed]_vars

\* every route from a fresh deployment of either variant, one request at a
\* time, with string inputs only; a /submit is accepted while the table has
\* room for its row
StartLive ==
    \/ \E u \in Usernames \cup {""}, p \in SignupPasswords \cup {""} :
         SignupStart("r1", NoCookie, u, p)
    \/ \E u \in Usernames \cup {""}, p \in Passwords \cup {""} :
         LoginStart("r1", NoCookie, u, p)
    \/ \E c \in Cookies : LogoutStart("r1", c)
    \/ \E c \in Cookies : Me("r1", c)
    \/ \E c \in Cookies : MessagesStart("r1", c)
    \/ \E c \in Cookies, m \in {<<>>, <<"a">>} :
         clock < MaxBoardMsgs /\ SubmitStart("r1", c, m)
    \/ \E c \in Cookies, i \in 0..MaxBoardMsgs, m \in {<<>>, <<"b">>} :
         UpdateStart("r1", c, i, m)
    \/ \E c \in Cookies, i \in 0..MaxBoardMsgs : DeleteStart("r1", c, i)

\* the statements and callbacks of the request in flight
StepLive ==
    \/ SignupGet("r1")
    \/ SignupRun("r1")
    \/ SignupRunCb("r1")
    \/ LoginGet("r1")
    \/ LoginGetCb("r1")
    \/ LogoutCb("r1")
    \/ MessagesAll("r1")
    \/ SubmitRun("r1", MaxBoardMsgs)
    \/ UpdateGet("r1")
    \/ UpdateRun("r1")
    \/ DeleteGet("r1")
    \/ DeleteRun("r1")

NextLive == StartLive \/ StepLive

InitLive ==
    /\ variant \in {1, 2}
    /\ users = <<>>
    /\ messages = {} /\ msgSeq = 0 /\ clock = 0
    /\ sessions = [t \in Tokens |-> NoIdentity]
    /\ expires = [t \in Tokens |-> 0] /\ dateNow = 0
    /\ req = [r \in Reqs |-> Blank]

\* sqlite3 and the session store call every callback they were given
SpecLive == InitLive /\ [][NextLive]_vars /\ WF_vars(StepLive)

\* posting while sessions change hands: logins that rebind the two sessions
\* and submits that present them, two requests in flight
NextPost ==
    \/ \E r \in Reqs, c \in Tokens, u \in Usernames : LoginStart(r, c, u, "pw1")
    \/ \E r \in Reqs : LoginGet(r)
    \/ \E r \in Reqs : LoginGetCb(r)
    \/ \E r \in Reqs, c \in Cookies, m \in {<<>>, <<"a">>} : SubmitStart(r, c, m)
    \/ \E r \in Reqs : SubmitRun(r, MaxBoardMsgs + 1)
    \/ \E t \in Tokens : Expire(t)

InitPost == variant \in {1, 2} /\ messages = {} /\ InitBoard

SpecPost == InitPost /\ [][NextPost]_vars

\* a board carried over from the table without user_id: its legacy row under
\* the updates and deletes of two users, two requests in flight, next to a
\* message of their own
NextLegacy ==
    \/ \E r \in Reqs, c \in Tokens : SubmitStart(r, c, <<"a">>)
    \/ \E r \in Reqs : SubmitRun(r, MaxBoardMsgs + 1)
    \/ \E r \in Reqs, c \in Tokens, i \in 1..(MaxBoardMsgs + 1) :
         UpdateStart(r, c, i, <<"b">>)
    \/ \E r \in Reqs : UpdateGet(r)
    \/ \E r \in Reqs : UpdateRun(r)
    \/ \E r \in Reqs, c \in Tokens, i \in 1..(MaxBoardMsgs + 1) : DeleteStart(r, c, i)
    \/ \E r \in Reqs : DeleteGet(r)
    \/ \E r \in Reqs : DeleteRun(r)

InitLegacy == variant \in {1, 2} /\ messages = {LegacyRow} /\ InitBoard

SpecLegacy == InitLegacy /\ [][NextLegacy]_vars

\* the two sessions of the running board over the days after they were
\* issued: requests that present them, logouts, and the passing of time; no
\* session is issued anew
NextClock ==
    \/ Tick
    \/ \E c \in Cookies : Me("r1", c)
    \/ \E c \in Cookies : MessagesStart("r1", c)
    \/ MessagesAll("r1")
    \/ \E c \in Cookies : SubmitStart("r1", c, <<"a">>)
    \/ SubmitRun("r1", MaxBoardMsgs)
    \/ \E c \in Cookies, i \in 1..MaxBoardMsgs : UpdateStart("r1", c, i, <<"b">>)
    \/ UpdateGet("r1")
    \/ UpdateRun("r1")
    \/ \E c \in Cookies : LogoutStart("r1", c)
    \/ LogoutCb("r1")

InitClock == variant = 1 /\ messages = {} /\ InitBoard

SpecClock == InitClock /\ [][NextClock]_vars

\* signups and logins whose password may be a JSON number, two requests in
\* flight, fresh deployment
NextFault ==
    \/ \E r \in Reqs, c \in Cookies, u \in Usernames,
          p \in SignupPasswords \cup NonStrings : SignupStart(r, c, u, p)
    \/ \E r \in Reqs : SignupGet(r)
    \/ \E r \in Reqs : SignupRun(r)
    \/ \E r \in Reqs : SignupRunCb(r)
    \/ \E r \in Reqs, c \in Cookies, u \in Usernames,
          p \in SignupPasswords \cup NonStrings : LoginStart(r, c, u, p)
    \/ \E r \in Reqs : LoginGet(r)
    \/ \E r \in Reqs : LoginGetCb(r)

SpecFault == InitAuth /\ [][NextFault]_vars

Next == NextAuth \/ NextBoard \/ NextGate \/ NextFeed \/ NextClock \/ NextFault \/ NextLegacy
        \/ NextPost \/ NextLive

\* the whole server
Spec == Init /\ [][Next]_vars

\* ------------------------------------------------------------ properties
Gated == {"submit", "update", "delete"}

\* the rows of the messages table a request's id names
Target(r) == MsgRows(messages, req[r].id)

\* the step answers or advances request r
Moves(r) == req'[r] # req[r]

\* C1: an authenticated, well-formed /update or /delete whose SELECT saw no
\* storage fault is answered 404 when no message has the id, 403 when the
\* message's owner is NULL or another user, and goes on to its UPDATE/DELETE
\* only when the owner is the session's user; the check itself never changes
\* the table, and success is only ever reported after passing it.
C1_OwnershipGate ==
    [][\A r \in Reqs :
        /\ ( /\ req[r].op \in {"update", "delete"} /\ req[r].pc = "get"
             /\ Moves(r) /\ req'[r].err = "none"
             /\ req[r].id # Null
             /\ (req[r].op = "update" => req[r].message # <<>>) )
           => /\ messages' = messages
              /\ (Target(r) = {})
                   => req'[r].pc = "done" /\ req'[r].resp.status = 404
              /\ (\E m \in Target(r) : m.user_id = Null \/ m.user_id # req[r].userId)
                   => req'[r].pc = "done" /\ req'[r].resp.status = 403
              /\ (\E m \in Target(r) : m.user_id = req[r].userId)
                   => req'[r].pc = "run"
        /\ ( /\ req'[r].op \in {"update", "delete"} /\ Moves(r)
             /\ req'[r].pc = "done" /\ req'[r].resp = Success )
           => req[r].pc = "run"
    ]_vars

\* C1 witness: bob's /update of a message alice owns was answered 403
C1_Witness ==
    /\ req["r1"].pc = "done" /\ req["r1"].op = "update"
    /\ req["r1"].resp = Resp(403, "Not allowed.")
    /\ messages # {}
    /\ \A m \in messages : m.user_id = 1

C3_SuccessMeansRowAffected ==
    \A r \in Reqs :
        ( /\ req[r].pc = "done" /\ req[r].op \in {"update", "delete"}
          /\ req[r].resp = Success )
        => req[r].changes = 1

\* C4: the users table never holds two rows with one username, whatever
\* the interleaving of signups, and a signup adds a row only in the INSERT
\* step that reports no error, which is always answered with success: a
\* rejected signup has created no row.
C4_UniqueUsernames ==
    [][/\ \A i, j \in 1..Len(users') :
             users'[i].username = users'[j].username => i = j
       /\ \A r \in Reqs :
            /\ (Moves(r) /\ users' # users)
                 => /\ req[r].op = "signup" /\ req[r].pc = "run"
                    /\ req'[r].err = "none"
                    /\ users' = Append(users, [username |-> req[r].username,
                                               password_hash |-> req[r].hash])
            /\ (Moves(r) /\ req'[r].op = "signup" /\ req'[r].pc = "done"
                /\ req'[r].resp # Success)
                 => /\ users' = users
                    /\ ~(req[r].pc = "runcb" /\ req[r].err = "none")
    ]_vars

\* C4 witness: two signups for one username raced; one row exists, one
\* request succeeded and the other was rejected by the UNIQUE constraint
C4_Witness ==
    /\ Len(users) = 1
    /\ req["r1"].pc = "done" /\ req["r1"].op = "signup" /\ req["r1"].resp = Success
    /\ req["r2"].pc = "done" /\ req["r2"].op = "signup"
    /\ req["r2"].err = "constraint" /\ req["r2"].resp.status = 500

\* C5 (as claimed): a signup that fails because its username is already
\* registered, whether the SELECT or the INSERT found that out, is answered
\* 400 "Username already taken."
C5_DuplicateAnswered400 ==
    \A r \in Reqs :
        ( /\ req[r].pc = "done" /\ req[r].op = "signup"
          /\ (req[r].row.found \/ req[r].err = "constraint") )
        => req[r].resp = Resp(400, "Username already taken.")

\* C7: /signup writes an identity into a session exactly when its INSERT
\* succeeded, and then it is the new row's id and username under the
\* request's own session id; every failing path leaves the whole session
\* store, the caller's session included, as it was.
C7_SignupBindsIffInserted ==
    [][\A r \in Reqs :
        /\ (Moves(r) /\ req'[r].op = "signup" /\ req'[r].pc = "done")
             => /\ req'[r].resp = Success
                     <=> (req[r].pc = "runcb" /\ req[r].err = "none")
                /\ req'[r].resp = Success
                     => /\ req[r].lastID \in 1..Len(users)
                        /\ users[req[r].lastID].username = req[r].username
                        /\ sessions' = [sessions EXCEPT ![req[r].sid] =
                               [userId |-> req[r].lastID,
                                username |-> req[r].username]]
                /\ req'[r].resp # Success => sessions' = sessions
        /\ (Moves(r) /\ req'[r].op = "signup" /\ req'[r].pc # "done")
             => /\ sessions' = sessions
                /\ (req'[r].pc = "runcb" /\ req'[r].err = "none") <=> users' # users
    ]_vars

\* C7 witness: a signup sent on a session that is already logged in has had
\* its INSERT rejected and is about to answer
C7_Witness ==
    \E r \in Reqs :
        /\ req[r].pc = "runcb" /\ req[r].op = "signup" /\ req[r].err # "none"
        /\ sessions[req[r].sid] # NoIdentity

C6_UnauthorizedFirst ==
    [][\A r \in Reqs :
        /\ (req'[r].op \in Gated /\ ~req'[r].passed)
             => req'[r].pc = "done" /\ req'[r].resp = Unauthorized
        /\ (Moves(r) /\ req'[r].resp = Unauthorized)
             => /\ Free(r) /\ req'[r].op \in Gated /\ ~req'[r].passed
                /\ messages' = messages
        /\ (req'[r].op \in Gated /\ req'[r].pc # "done") => req'[r].userId # Null
        /\ (Free(r) /\ Moves(r) /\ req'[r].op \in Gated /\ req'[r].passed)
             => \E t \in Tokens : sessions[t] # NoIdentity
        /\ req'[r].op \in {"me", "messages"} => req'[r].resp.status # 401
    ]_vars

\* C6 witness: after the holder of a session was logged out or expired, an
\* /update naming a stored message was answered 401 and the message is
\* still there
C6_Witness ==
    /\ req["r1"].pc = "done" /\ req["r1"].op = "update"
    /\ req["r1"].resp = Unauthorized
    /\ \E t \in Tokens : sessions[t] = NoIdentity
    /\ \E m \in messages : m.user_id # Null

\* C9: /messages answers with exactly the stored rows, each once, in
\* strictly descending id order, and in that order every row was created
\* after all rows that follow it; a new row's id is larger than every id
\* the table has held, deleted rows included.
C9_FeedOrder ==
    [][/\ \A m \in messages' :
            /\ m.id <= msgSeq'
            /\ (\A x \in messages : x.id # m.id)
                 => m.id > msgSeq /\ m.timestamp > clock
       /\ \A r \in Reqs :
        ( /\ req[r].op = "messages" /\ req[r].pc = "all" /\ Moves(r)
          /\ req'[r].err = "none" )
        => LET rows == req'[r].rows
           IN /\ req'[r].resp = Success
              /\ Len(rows) = Cardinality(messages)
              /\ {rows[i] : i \in 1..Len(rows)} = messages
              /\ \A i, j \in 1..Len(rows) :
                   i < j => /\ rows[i].id > rows[j].id
                            /\ rows[i].timestamp > rows[j].timestamp
    ]_vars

\* C9 witness: a feed of the messages 3 and 1, served after message 2, then
\* the one with the highest id, was deleted and a later one submitted
C9_Witness ==
    /\ req["r1"].pc = "done" /\ req["r1"].op = "messages"
    /\ Len(req["r1"].rows) = 2
    /\ req["r1"].rows[1].id = 3 /\ req["r1"].rows[2].id = 1

\* C10: /logout removes the stored session of the token it was sent with and
\* no other; a token without a stored session gets one again only through
\* the success of a /login or /signup that runs under that session id; and
\* /me answers an identity, and a gated route anything but 401, only if a
\* stored session held an identity on arrival.
C10_LogoutInvalidates ==
    [][/\ \A r \in Reqs :
            /\ (Free(r) /\ Moves(r) /\ req'[r].op = "logout")
                 => /\ req'[r].sid # NoSid => sessions'[req'[r].sid] = NoIdentity
                    /\ \A t \in Tokens \ {req'[r].sid} : sessions'[t] = sessions[t]
            /\ (Free(r) /\ Moves(r) /\ req'[r].op \in Gated \cup {"me"})
                 => /\ sessions' = sessions
                    /\ req'[r].me # NoIdentity
                         => \E t \in Tokens : sessions[t] = req'[r].me
                    /\ (req'[r].op \in Gated /\ req'[r].resp # Unauthorized)
                         => \E t \in Tokens : sessions[t] # NoIdentity
       /\ \A t \in Tokens :
            (sessions[t] = NoIdentity /\ sessions'[t] # NoIdentity)
              => \E r \in Reqs :
                   /\ req[r].op \in {"login", "signup"} /\ req[r].sid = t
                   /\ Moves(r) /\ req'[r].pc = "done" /\ req'[r].resp = Success
    ]_vars

\* C10 witness: alice holds two sessions; the logout of t1 has completed,
\* a later /me with t1 was answered null, and t2 still resolves to alice
C10_Witness ==
    /\ req["r1"].pc = "done" /\ req["r1"].op = "logout" /\ req["r1"].resp = Success
    /\ req["r2"].pc = "done" /\ req["r2"].op = "me" /\ req["r2"].me = NoIdentity
    /\ sessions["t1"] = NoIdentity
    /\ sessions["t2"] = [userId |-> 1, username |-> "alice"]

\* C11: every /logout is answered with success, whether or not its token
\* had a stored session; a /logout whose token has no stored session (none
\* sent, never issued, expired, or already logged out) leaves the session
\* store as it was, and one whose token has a stored session removes that
\* entry, so a second call finds the store as the first left it.
C11_LogoutIdempotent ==
    [][\A r \in Reqs :
        /\ (Free(r) /\ Moves(r) /\ req'[r].op = "logout")
             => /\ req'[r].pc = "destroycb"
                /\ req'[r].sid = NoSid => sessions' = sessions
                /\ req'[r].sid # NoSid
                     => /\ sessions[req'[r].sid] # NoIdentity
                        /\ sessions' = [sessions EXCEPT ![req'[r].sid] = NoIdentity]
        /\ (req[r].op = "logout" /\ req[r].pc = "destroycb" /\ Moves(r))
             => /\ req'[r].pc = "done" /\ req'[r].resp = Success
                /\ sessions' = sessions
    ]_vars

\* C11 witness: with every session already logged out or expired, one more
\* /logout has arrived with a token that has no stored session
C11_Witness ==
    /\ req["r1"].pc = "destroycb" /\ req["r1"].op = "logout"
    /\ req["r1"].sid = NoSid
    /\ \A t \in Tokens : sessions[t] = NoIdentity

\* C12 (as claimed): a session issued on day 0 resolves to its identity only
\* before day MaxAge, and no request made with it moves its expires time.
C12_FixedExpiry ==
    \A t \in Tokens :
        /\ sessions[t] # NoIdentity => dateNow < MaxAge
        /\ expires[t] \in {0, MaxAge}

\* C13 (as claimed): no exception escapes a handler or its callbacks, so
\* the process keeps running, and a request whose storage call reported an
\* error is answered with a 500.
C13_FailuresAnswered ==
    \A r \in Reqs :
        /\ req[r].pc # "uncaught"
        /\ (req[r].pc = "done" /\ req[r].err # "none") => req[r].resp.status = 500

\* C14 (as claimed): every stored message has a body that is non-empty
\* after trimming whitespace, whatever /submit and /update were sent.
C14_BodiesNonEmpty ==
    \A m \in messages : Trim(m.message) # <<>>

\* C15 (as claimed): the step in which an /update succeeds replaces the body
\* of the message it names and nothing else: every other field of that row,
\* every other row, the users table and every stored session, its expires
\* time included, are as before; and no step changes the owner of a row.
C15_UpdateFrame ==
    [][/\ \A r \in Reqs :
            ( /\ req[r].op = "update" /\ req[r].pc = "run" /\ Moves(r)
              /\ req'[r].resp = Success )
            => /\ messages' = {IF m.id = req[r].id
                               THEN [m EXCEPT !.message = req[r].message]
                               ELSE m : m \in messages}
               /\ users' = users
               /\ sessions' = sessions
               /\ expires' = expires
       /\ \A m \in messages, n \in messages' :
            m.id = n.id => m.user_id = n.user_id
    ]_vars

\* C16: a message whose user_id is NULL stays in the table exactly as it is
\* through every step, and an /update or /delete that names it and whose
\* SELECT saw no storage fault is answered 403, whoever sent it.
C16_LegacyImmutable ==
    [][/\ \A m \in messages : m.user_id = Null => m \in messages'
       /\ \A r \in Reqs :
            ( /\ req[r].op \in {"update", "delete"} /\ req[r].pc = "get"
              /\ Moves(r) /\ req'[r].err = "none"
              /\ \E m \in Target(r) : m.user_id = Null )
            => req'[r].pc = "done" /\ req'[r].resp.status = 403
    ]_vars

\* C16 witness: an /update and a /delete of the legacy row have both been
\* refused while a message submitted since was deleted by its owner
C16_Witness ==
    /\ req["r1"].pc = "done" /\ req["r1"].op = "update"
    /\ req["r1"].resp.status = 403
    /\ req["r2"].pc = "done" /\ req["r2"].op = "delete"
    /\ req["r2"].resp.status = 403
    /\ messages = {LegacyRow} /\ msgSeq = 2

\* C17: a row enters the messages table only through the INSERT of a
\* /submit, with the user id and name that request read from the stored
\* session it presented on arrival: the user id is not NULL, and id and name
\* are those of one registered user.
C17_StampedFromSession ==
    [][/\ \A r \in Reqs :
            (Free(r) /\ Moves(r) /\ req'[r].op = "submit" /\ req'[r].pc = "run")
            => /\ req'[r].sid \in Tokens
               /\ sessions[req'[r].sid] = [userId |-> req'[r].userId,
                                           username |-> req'[r].name]
               /\ req'[r].userId # Null
       /\ \A m \in messages' \ messages :
            /\ \E r \in Reqs :
                 /\ req[r].op = "submit" /\ req[r].pc = "run" /\ Moves(r)
                 /\ m.user_id = req[r].userId /\ m.name = req[r].name
                 /\ m.message = req[r].message
            /\ m.user_id \in 1..Len(users)
            /\ users[m.user_id].username = m.name
    ]_vars

\* C17 witness: bob's message is stored under his id and name although the
\* session it was posted with has since been rebound to alice
C17_Witness ==
    /\ \E m \in messages : m.user_id = 2 /\ m.name = "bob"
    /\ \A t \in Tokens : sessions[t] = [userId |-> 1, username |-> "alice"]

\* C18 (as claimed): the step in which a /login succeeds binds the identity
\* to a session token that had no stored identity, and every token that had
\* one, the one the login was sent with included, keeps its user id.
C18_LoginIssuesNewSession ==
    [][\A r \in Reqs :
        ( /\ req[r].op = "login" /\ req[r].pc = "getcb" /\ Moves(r)
          /\ req'[r].resp = Success )
        => /\ \E t \in Tokens :
                /\ sessions[t] = NoIdentity
                /\ sessions'[t] = [userId |-> req[r].row.id,
                                   username |-> req[r].username]
           /\ \A t \in Tokens :
                sessions[t] # NoIdentity => sessions'[t].userId = sessions[t].userId
    ]_vars

\* C19: with every callback eventually called and nothing thrown, a request
\* that has arrived is eventually answered; an answered request holds a
\* response and is not answered again: its connection only changes when the
\* next request arrives on it.
C19_AnsweredOnce ==
    /\ (req["r1"].pc \notin {"idle", "done"}) ~> (req["r1"].pc = "done")
    /\ [](\A r \in Reqs : req[r].pc = "done" => req[r].resp # NoResp)
    /\ [][\A r \in Reqs :
            (req[r].pc = "done" /\ Moves(r))
            => req'[r].op # "none" /\ req'[r].pc # "idle"
               /\ (req'[r].pc = "done" => req'[r].resp # NoResp)
       ]_vars

\* C19 witness: a /delete went through both its statements and was answered
\* with success; the only message ever submitted is gone
C19_Witness ==
    /\ req["r1"].pc = "done" /\ req["r1"].op = "delete"
    /\ req["r1"].resp = Success /\ req["r1"].changes = 1
    /\ messages = {} /\ msgSeq = 1

\* C20: every stored session that carries an identity carries the id of a
\* row of the users table together with that row's username, and so does
\* every identity /me has answered with.
C20_SessionConsistent ==
    /\ \A t \in Tokens :
        sessions[t] # NoIdentity
        => /\ sessions[t].userId \in 1..Len(users)
           /\ users[sessions[t].userId].username = sessions[t].username
    /\ \A r \in Reqs :
        req[r].me # NoIdentity
        => /\ req[r].me.userId \in 1..Len(users)
           /\ users[req[r].me.userId].username = req[r].me.username

\* C20 witness: two logins for different users, sent with the same session
\* that already carries an identity, have both found their row and are about
\* to write to it
C20_Witness ==
    /\ req["r1"].pc = "getcb" /\ req["r1"].op = "login" /\ req["r1"].row.found
    /\ req["r2"].pc = "getcb" /\ req["r2"].op = "login" /\ req["r2"].row.found
    /\ req["r1"].sid = req["r2"].sid
    /\ req["r1"].username # req["r2"].username
    /\ req["r1"].password = "pw1" /\ req["r2"].password = "pw1"
    /\ sessions[req["r1"].sid] # NoIdentity

=============================================================================
